---- MODULE Spec2Model ----
(***************************************************************************)
(* Model of the Dot-Matrix-Sheet mass-spring simulation.                   *)
(*                                                                         *)
(*   src/dot_matrix_sheet.c  the final variant      (specification Spec)   *)
(*   src/ball_sheet.c        the earlier variant    (specification         *)
(*                                                   SpecBall)             *)
(*                                                                         *)
(* Numbers.  The C code computes in single-precision floats.  Here a float *)
(* is a fixed-point integer counting 1/SCALE of a pixel, every arithmetic  *)
(* operation rounds to the nearest representable value as the float        *)
(* operation does, and NaN is carried by the flags pos_nan and vel_nan of  *)
(* a dot (in every path of the code x and y, and vx and vy, become NaN     *)
(* together).  A division by zero yields NaN (0.0f / 0.0f).                *)
(*                                                                         *)
(* Grid.  GRID_ROWS and GRID_COLS are 30 and 40 in the source; the model   *)
(* keeps the code and shrinks the two numbers.                             *)
(***************************************************************************)
EXTENDS Integers, Sequences, FiniteSets, TLC

\* ---------------------------------------------------------------- bounds
SCALE == 100
GRID_ROWS == 2
GRID_COLS == 3
MaxEvents == 3
MaxFrames == 2

\* ------------------------------------------------------ program constants
WINDOW_WIDTH == 800
WINDOW_HEIGHT == 600
SPRING_REST_LENGTH == 15
\* SPRING_STIFFNESS 0.2, VELOCITY_DAMPING 0.9, RESTORING_FORCE_STRENGTH 0.01
SPRING_STIFFNESS_NUM == 2
SPRING_STIFFNESS_DEN == 10
VELOCITY_DAMPING_NUM == 9
VELOCITY_DAMPING_DEN == 10
RESTORING_FORCE_STRENGTH_DEN == 100
CLICK_DETECTION_RADIUS == 10
\* the 0.001f of apply_spring_force, as 1 / EPSILON_DEN
EPSILON_DEN == 1000
\* ball_sheet.c tests the click against DOT_RADIUS
DOT_RADIUS == 2

VARIABLES g_dots, g_drag_state, g_running, mouse, queue, pc,
          step_log, nframes, nevents

vars == <<g_dots, g_drag_state, g_running, mouse, queue, pc,
          step_log, nframes, nevents>>

\* ------------------------------------------------------------ arithmetic
\* a / b rounded to the nearest integer, ties away from zero (b > 0)
RDiv(a, b) ==
  IF a >= 0 THEN (2 * a + b) \div (2 * b)
            ELSE -((2 * (-a) + b) \div (2 * b))

RECURSIVE SqrtSearch(_, _, _)
\* the largest r in lo..hi with r * r <= n
SqrtSearch(n, lo, hi) ==
  IF lo >= hi THEN lo
  ELSE LET mid == (lo + hi + 1) \div 2
       IN IF mid * mid <= n THEN SqrtSearch(n, mid, hi)
                            ELSE SqrtSearch(n, lo, mid - 1)

\* sqrtf of a value counted in 1/SCALE^2, result counted in 1/SCALE,
\* rounded to nearest
sqrtf(n) ==
  LET r == SqrtSearch(n, 0, IF n < 46340 THEN n ELSE 46340)
  IN IF n - r * r > r THEN r + 1 ELSE r

\* ------------------------------------------------------------------ grid
Cells == (0 .. GRID_ROWS - 1) \X (0 .. GRID_COLS - 1)

\* the cells in the order of the nested row / col loops
CellAt(i) == <<i \div GRID_COLS, i % GRID_COLS>>

NumCells == GRID_ROWS * GRID_COLS

Anchors == {<<0, 0>>, <<0, GRID_COLS - 1>>}

\* the springs of the lattice: up/down/left/right neighbours, no wraparound
Edges ==
  {{p[1], p[2]} : p \in {q \in Cells \X Cells :
                           \/ q[1][1] = q[2][1] /\ q[2][2] = q[1][2] + 1
                           \/ q[1][2] = q[2][2] /\ q[2][1] = q[1][1] + 1}}

NewDot(px, py) ==
  [x |-> px, y |-> py, vx |-> 0, vy |-> 0,
   original_x |-> px, original_y |-> py, fixed |-> FALSE,
   pos_nan |-> FALSE, vel_nan |-> FALSE]

start_x == RDiv((WINDOW_WIDTH - (GRID_COLS - 1) * SPRING_REST_LENGTH) * SCALE, 2)
start_y == RDiv((WINDOW_HEIGHT - (GRID_ROWS - 1) * SPRING_REST_LENGTH) * SCALE, 2)

initialize_grid ==
  LET laid == [d \in Cells |->
                 NewDot(start_x + d[2] * SPRING_REST_LENGTH * SCALE,
                        start_y + d[1] * SPRING_REST_LENGTH * SCALE)]
  IN [laid EXCEPT ![<<0, 0>>].fixed = TRUE,
                  ![<<0, GRID_COLS - 1>>].fixed = TRUE]

\* ball_sheet.c: the centring is an integer division
startX == ((WINDOW_WIDTH - (GRID_COLS - 1) * SPRING_REST_LENGTH) \div 2) * SCALE
startY == ((WINDOW_HEIGHT - (GRID_ROWS - 1) * SPRING_REST_LENGTH) \div 2) * SCALE

initialize_dots ==
  LET laid == [d \in Cells |->
                 NewDot(startX + d[2] * SPRING_REST_LENGTH * SCALE,
                        startY + d[1] * SPRING_REST_LENGTH * SCALE)]
  IN [laid EXCEPT ![<<0, 0>>].fixed = TRUE,
                  ![<<0, GRID_COLS - 1>>].fixed = TRUE]

\* ---------------------------------------------------------------- forces
\* AddVelocity without the test of the fixed flag
AddVelocity_ignoring_fixed(dot, fx, fy, nan) ==
  IF nan \/ dot.vel_nan
  THEN [dot EXCEPT !.vx = 0, !.vy = 0, !.vel_nan = TRUE]
  ELSE [dot EXCEPT !.vx = @ + fx, !.vy = @ + fy]

\* dot->vx += fx; dot->vy += fy  guarded by  if (!dot->fixed)
AddVelocity(dot, fx, fy, nan) ==
  IF dot.fixed THEN dot
  ELSE IF nan \/ dot.vel_nan
       THEN [dot EXCEPT !.vx = 0, !.vy = 0, !.vel_nan = TRUE]
       ELSE [dot EXCEPT !.vx = @ + fx, !.vy = @ + fy]

\* distance between two dots, in 1/SCALE (both positions are numbers)
Distance(A, B) ==
  sqrtf((B.x - A.x) * (B.x - A.x) + (B.y - A.y) * (B.y - A.y))

\* apply_spring_force with the force taken from the distance itself
apply_spring_force_without_rest_length(dots, a, b) ==
  LET A == dots[a]
      B == dots[b]
      nanpos == A.pos_nan \/ B.pos_nan
      dx == B.x - A.x
      dy == B.y - A.y
      distance == sqrtf(dx * dx + dy * dy)
  IN IF ~nanpos /\ distance * EPSILON_DEN < SCALE
     THEN dots
     ELSE LET force_magnitude ==
                RDiv(distance * SPRING_STIFFNESS_NUM, SPRING_STIFFNESS_DEN)
              nan == nanpos \/ distance = 0
              fx == IF nan THEN 0
                    ELSE RDiv(force_magnitude * RDiv(dx * SCALE, distance), SCALE)
              fy == IF nan THEN 0
                    ELSE RDiv(force_magnitude * RDiv(dy * SCALE, distance), SCALE)
          IN [dots EXCEPT ![a] = AddVelocity(A, fx, fy, nan),
                          ![b] = AddVelocity(B, -fx, -fy, nan)]

\* dot_matrix_sheet.c
apply_spring_force(dots, a, b) ==
  LET A == dots[a]
      B == dots[b]
      nanpos == A.pos_nan \/ B.pos_nan
      dx == B.x - A.x
      dy == B.y - A.y
      distance == sqrtf(dx * dx + dy * dy)
  IN IF ~nanpos /\ distance * EPSILON_DEN < SCALE
     THEN dots
     ELSE LET displacement == distance - SPRING_REST_LENGTH * SCALE
              force_magnitude ==
                RDiv(displacement * SPRING_STIFFNESS_NUM, SPRING_STIFFNESS_DEN)
              nan == nanpos \/ distance = 0
              fx == IF nan THEN 0
                    ELSE RDiv(force_magnitude * RDiv(dx * SCALE, distance), SCALE)
              fy == IF nan THEN 0
                    ELSE RDiv(force_magnitude * RDiv(dy * SCALE, distance), SCALE)
          IN [dots EXCEPT ![a] = AddVelocity(A, fx, fy, nan),
                          ![b] = AddVelocity(B, -fx, -fy, nan)]

\* ball_sheet.c: the same force without the distance test
apply_spring(dots, a, b) ==
  LET A == dots[a]
      B == dots[b]
      nanpos == A.pos_nan \/ B.pos_nan
      dx == B.x - A.x
      dy == B.y - A.y
      distance == sqrtf(dx * dx + dy * dy)
      force == RDiv((distance - SPRING_REST_LENGTH * SCALE) * SPRING_STIFFNESS_NUM,
                    SPRING_STIFFNESS_DEN)
      nan == nanpos \/ distance = 0
      fx == IF nan THEN 0 ELSE RDiv(force * RDiv(dx * SCALE, distance), SCALE)
      fy == IF nan THEN 0 ELSE RDiv(force * RDiv(dy * SCALE, distance), SCALE)
  IN [dots EXCEPT ![a] = AddVelocity(A, fx, fy, nan),
                  ![b] = AddVelocity(B, -fx, -fy, nan)]

\* the same function in both files
apply_restoring_force(dot) ==
  IF dot.fixed THEN dot
  ELSE IF dot.pos_nan \/ dot.vel_nan
       THEN [dot EXCEPT !.vx = 0, !.vy = 0, !.vel_nan = TRUE]
       ELSE LET dx == dot.original_x - dot.x
                dy == dot.original_y - dot.y
            IN [dot EXCEPT !.vx = @ + RDiv(dx, RESTORING_FORCE_STRENGTH_DEN),
                           !.vy = @ + RDiv(dy, RESTORING_FORCE_STRENGTH_DEN)]

\* the body of the first loop of update_physics / update_dots
integrate(dot) ==
  IF dot.fixed THEN dot
  ELSE IF dot.vel_nan
       THEN apply_restoring_force(
              [dot EXCEPT !.x = 0, !.y = 0, !.pos_nan = TRUE])
       ELSE LET vx == RDiv(dot.vx * VELOCITY_DAMPING_NUM, VELOCITY_DAMPING_DEN)
                vy == RDiv(dot.vy * VELOCITY_DAMPING_NUM, VELOCITY_DAMPING_DEN)
            IN apply_restoring_force(
                 IF dot.pos_nan
                 THEN [dot EXCEPT !.vx = vx, !.vy = vy]
                 ELSE [dot EXCEPT !.vx = vx, !.vy = vy,
                                  !.x = @ + vx, !.y = @ + vy])

\* the four calls of the second loop for one cell, in source order
SpringCalls(d) ==
  LET row == d[1]
      col == d[2]
  IN (IF row > 0 THEN << <<d, <<row - 1, col>> >> >> ELSE << >>)
     \o (IF row < GRID_ROWS - 1 THEN << <<d, <<row + 1, col>> >> >> ELSE << >>)
     \o (IF col > 0 THEN << <<d, <<row, col - 1>> >> >> ELSE << >>)
     \o (IF col < GRID_COLS - 1 THEN << <<d, <<row, col + 1>> >> >> ELSE << >>)

RECURSIVE AllSpringCalls(_)
\* the calls of the second loop from cell number i on
AllSpringCalls(i) ==
  IF i >= NumCells THEN << >>
  ELSE SpringCalls(CellAt(i)) \o AllSpringCalls(i + 1)

\* history of one physics step: how often each spring was applied, how many
\* applications met two coincident dots, and whether one of those changed
\* a dot
EmptyLog ==
  [calls |-> [e \in Edges |-> 0], coincident |-> 0, coincident_changed |-> FALSE]

Coincident(A, B) ==
  ~A.pos_nan /\ ~B.pos_nan /\ Distance(A, B) * EPSILON_DEN < SCALE

LogCall(log, before, after, a, b) ==
  LET co == Coincident(before[a], before[b])
  IN [calls |-> [log.calls EXCEPT ![{a, b}] = @ + 1],
      coincident |-> log.coincident + (IF co THEN 1 ELSE 0),
      coincident_changed |-> log.coincident_changed \/ (co /\ \E d \in Cells : after[d] # before[d])]

\* TRUE for every function or record v.  TLC hands operator arguments on
\* unevaluated; testing this at each turn of a loop makes it evaluate the
\* loop's state turn by turn instead of nesting all turns at the end.
Evaluated(v) == DOMAIN v = DOMAIN v

RECURSIVE spring_loop(_, _, _)
\* second loop of update_physics
spring_loop(calls, dots, log) ==
  IF Evaluated(dots) /\ Evaluated(log) /\ calls = << >>
  THEN [dots |-> dots, log |-> log]
  ELSE LET a == Head(calls)[1]
           b == Head(calls)[2]
           after == apply_spring_force(dots, a, b)
       IN spring_loop(Tail(calls), after, LogCall(log, dots, after, a, b))

update_physics(dots) ==
  spring_loop(AllSpringCalls(0), [d \in Cells |-> integrate(dots[d])], EmptyLog)

RECURSIVE ball_spring_loop(_, _, _)
\* second loop of update_dots
ball_spring_loop(calls, dots, log) ==
  IF Evaluated(dots) /\ Evaluated(log) /\ calls = << >>
  THEN [dots |-> dots, log |-> log]
  ELSE LET a == Head(calls)[1]
           b == Head(calls)[2]
           after == apply_spring(dots, a, b)
       IN ball_spring_loop(Tail(calls), after, LogCall(log, dots, after, a, b))

update_dots(dots) ==
  ball_spring_loop(AllSpringCalls(0), [d \in Cells |-> integrate(dots[d])], EmptyLog)

\* ----------------------------------------------------------- interaction
\* SDL event types the loop distinguishes; OTHER is any other event
EventTypes == {"MOUSEBUTTONDOWN", "MOUSEBUTTONUP", "MOUSEMOTION", "QUIT", "OTHER"}

\* sqrtf(dx * dx + dy * dy) < radius  for the pointer m and a dot
WithinRadius(dot, m, radius) ==
  /\ ~dot.pos_nan
  /\ LET dx == m[1] * SCALE - dot.x
         dy == m[2] * SCALE - dot.y
     IN sqrtf(dx * dx + dy * dy) < radius * SCALE

RECURSIVE ScanDots(_, _, _, _)
\* the nested loops of find_dot_at_position from cell number i on
ScanDots(dots, m, radius, i) ==
  IF i >= NumCells THEN [found |-> FALSE, row |-> -1, col |-> -1]
  ELSE IF WithinRadius(dots[CellAt(i)], m, radius)
       THEN [found |-> TRUE, row |-> CellAt(i)[1], col |-> CellAt(i)[2]]
       ELSE ScanDots(dots, m, radius, i + 1)

find_dot_at_position(dots, m) == ScanDots(dots, m, CLICK_DETECTION_RADIUS, 0)

\* the pointer position stored into a float field
SetPosition(dot, m) ==
  [dot EXCEPT !.x = m[1] * SCALE, !.y = m[2] * SCALE, !.pos_nan = FALSE]

\* handle_mouse_event with the pointer-move pulling the dot by its velocity
handle_mouse_event_motion_as_velocity(dots, drag, m, e) ==
  CASE e = "MOUSEBUTTONDOWN" ->
         LET hit == find_dot_at_position(dots, m)
         IN IF hit.found
            THEN [dots |-> [dots EXCEPT ![<<hit.row, hit.col>>].fixed = TRUE],
                  drag |-> [is_dragging |-> TRUE, row |-> hit.row, col |-> hit.col]]
            ELSE [dots |-> dots, drag |-> drag]
    [] e = "MOUSEBUTTONUP" ->
         IF drag.is_dragging
         THEN [dots |-> [dots EXCEPT ![<<drag.row, drag.col>>].fixed = FALSE],
               drag |-> [drag EXCEPT !.is_dragging = FALSE]]
         ELSE [dots |-> dots, drag |-> drag]
    [] e = "MOUSEMOTION" ->
         IF drag.is_dragging
         THEN [dots |-> [dots EXCEPT ![<<drag.row, drag.col>>] =
                           [SetPosition(@, m) EXCEPT
                              !.vx = m[1] * SCALE - dots[<<drag.row, drag.col>>].x,
                              !.vy = m[2] * SCALE - dots[<<drag.row, drag.col>>].y]],
               drag |-> drag]
         ELSE [dots |-> dots, drag |-> drag]
    [] OTHER -> [dots |-> dots, drag |-> drag]
handle_mouse_event(dots, drag, m, e) ==
  CASE e = "MOUSEBUTTONDOWN" ->
         LET hit == find_dot_at_position(dots, m)
         IN IF hit.found
            THEN [dots |-> [dots EXCEPT ![<<hit.row, hit.col>>].fixed = TRUE],
                  drag |-> [is_dragging |-> TRUE, row |-> hit.row, col |-> hit.col]]
            ELSE [dots |-> dots, drag |-> drag]
    [] e = "MOUSEBUTTONUP" ->
         IF drag.is_dragging
         THEN [dots |-> [dots EXCEPT ![<<drag.row, drag.col>>].fixed = FALSE],
               drag |-> [drag EXCEPT !.is_dragging = FALSE]]
         ELSE [dots |-> dots, drag |-> drag]
    [] e = "MOUSEMOTION" ->
         IF drag.is_dragging
         THEN [dots |-> [dots EXCEPT ![<<drag.row, drag.col>>] = SetPosition(@, m)],
               drag |-> drag]
         ELSE [dots |-> dots, drag |-> drag]
    [] OTHER -> [dots |-> dots, drag |-> drag]

\* ball_sheet.c: the scan is inline and tests against DOT_RADIUS
ball_handle_mouse_event(dots, drag, m, e) ==
  CASE e = "MOUSEBUTTONDOWN" ->
         LET hit == ScanDots(dots, m, DOT_RADIUS, 0)
         IN IF hit.found
            THEN [dots |-> [dots EXCEPT ![<<hit.row, hit.col>>].fixed = TRUE],
                  drag |-> [is_dragging |-> TRUE, row |-> hit.row, col |-> hit.col]]
            ELSE [dots |-> dots, drag |-> drag]
    [] e = "MOUSEBUTTONUP" ->
         IF drag.is_dragging
         THEN [dots |-> [dots EXCEPT ![<<drag.row, drag.col>>].fixed = FALSE],
               drag |-> [drag EXCEPT !.is_dragging = FALSE]]
         ELSE [dots |-> dots, drag |-> drag]
    [] e = "MOUSEMOTION" ->
         IF drag.is_dragging
         THEN [dots |-> [dots EXCEPT ![<<drag.row, drag.col>>] = SetPosition(@, m)],
               drag |-> drag]
         ELSE [dots |-> dots, drag |-> drag]
    [] OTHER -> [dots |-> dots, drag |-> drag]

\* ------------------------------------------------------------ the pointer
\* pixel of a lattice column / row (the lattice coordinate truncated)
PixelX(col) == (start_x + col * SPRING_REST_LENGTH * SCALE) \div SCALE
PixelY(row) == (start_y + row * SPRING_REST_LENGTH * SCALE) \div SCALE

\* pointer positions the user visits: on the anchor (0,0); between (0,0) and
\* (0,1), nearer to (0,1); on the dot (1,1); away from every dot
MousePoints ==
  { <<PixelX(0), PixelY(0)>>,
    <<PixelX(0) + 8, PixelY(0)>>,
    <<PixelX(1), PixelY(1)>>,
    <<PixelX(GRID_COLS - 1) + 15, PixelY(GRID_ROWS - 1) + 22>> }

\* ball_sheet.c: on the dot (0,1); on the anchor (0,0); on the dot (1,1);
\* away from every dot
BallMousePoints ==
  { <<startX \div SCALE + SPRING_REST_LENGTH, startY \div SCALE>>,
    <<startX \div SCALE, startY \div SCALE>>,
    <<startX \div SCALE + SPRING_REST_LENGTH, startY \div SCALE + SPRING_REST_LENGTH>>,
    <<startX \div SCALE + 7, startY \div SCALE + 7>> }

\* ------------------------------------------------------------- frame loop
\* pc: "loop"   the test of while (g_running)
\*     "poll"   inside while (SDL_PollEvent(&event))
\*     "update" before update_physics()
\*     "render" before the drawing calls and SDL_Delay
\*     "done"   after the loop
InitCommon ==
  /\ g_drag_state = [is_dragging |-> FALSE, row |-> -1, col |-> -1]
  /\ g_running = TRUE
  /\ queue = << >>
  /\ pc = "loop"
  /\ step_log = EmptyLog
  /\ nframes = 0
  /\ nevents = 0

Init ==
  /\ g_dots = initialize_grid
  /\ mouse \in MousePoints
  /\ InitCommon

\* SDL pumps one more input event into its queue and updates the pointer
\* position SDL_GetMouseState reports; this happens inside SDL_PollEvent
Pump(points) ==
  /\ pc = "poll"
  /\ nevents < MaxEvents
  /\ \E e \in EventTypes, p \in points :
       /\ IF e = "MOUSEMOTION" THEN p # mouse ELSE p = mouse
       /\ mouse' = p
       /\ queue' = Append(queue, e)
  /\ nevents' = nevents + 1
  /\ UNCHANGED <<g_dots, g_drag_state, g_running, pc, step_log, nframes>>

PumpEvents == Pump(MousePoints)

\* LoopTest entering the next frame whatever g_running is
LoopTest_ignoring_running ==
  /\ pc = "loop"
  /\ nframes < MaxFrames
  /\ pc' = "poll"
  /\ UNCHANGED <<g_dots, g_drag_state, g_running, mouse, queue, step_log,
                 nframes, nevents>>

\* while (g_running) { main_loop(); SDL_Delay(); }
LoopTest ==
  /\ pc = "loop"
  /\ IF g_running THEN nframes < MaxFrames /\ pc' = "poll" ELSE pc' = "done"
  /\ UNCHANGED <<g_dots, g_drag_state, g_running, mouse, queue, step_log,
                 nframes, nevents>>

\* SDL_PollEvent returned an event
PollEvent ==
  /\ pc = "poll"
  /\ queue # << >>
  /\ LET e == Head(queue)
         r == handle_mouse_event(g_dots, g_drag_state, mouse, e)
     IN IF e = "QUIT"
        THEN g_running' = FALSE /\ UNCHANGED <<g_dots, g_drag_state>>
        ELSE g_dots' = r.dots /\ g_drag_state' = r.drag /\ UNCHANGED g_running
  /\ queue' = Tail(queue)
  /\ UNCHANGED <<mouse, pc, step_log, nframes, nevents>>

\* SDL_PollEvent returned 0
PollEmpty ==
  /\ pc = "poll"
  /\ queue = << >>
  /\ pc' = "update"
  /\ UNCHANGED <<g_dots, g_drag_state, g_running, mouse, queue, step_log,
                 nframes, nevents>>

UpdatePhysics ==
  /\ pc = "update"
  /\ LET r == update_physics(g_dots)
     IN g_dots' = r.dots /\ step_log' = r.log
  /\ nframes' = nframes + 1
  /\ pc' = "render"
  /\ UNCHANGED <<g_drag_state, g_running, mouse, queue, nevents>>

\* clear, render_grid, present: the grid is only read
Render ==
  /\ pc = "render"
  /\ pc' = "loop"
  /\ UNCHANGED <<g_dots, g_drag_state, g_running, mouse, queue, step_log,
                 nframes, nevents>>

Next ==
  \/ PumpEvents
  \/ LoopTest
  \/ PollEvent
  \/ PollEmpty
  \/ UpdatePhysics
  \/ Render

Spec == Init /\ [][Next]_vars

\* ---------------------------------------------------- ball_sheet.c's loop
InitBall ==
  /\ g_dots = initialize_dots
  /\ mouse \in BallMousePoints
  /\ InitCommon

BallPumpEvents == Pump(BallMousePoints)

BallPollEvent ==
  /\ pc = "poll"
  /\ queue # << >>
  /\ LET e == Head(queue)
         r == ball_handle_mouse_event(g_dots, g_drag_state, mouse, e)
     IN IF e = "QUIT"
        THEN g_running' = FALSE /\ UNCHANGED <<g_dots, g_drag_state>>
        ELSE g_dots' = r.dots /\ g_drag_state' = r.drag /\ UNCHANGED g_running
  /\ queue' = Tail(queue)
  /\ UNCHANGED <<mouse, pc, step_log, nframes, nevents>>

BallUpdateDots ==
  /\ pc = "update"
  /\ LET r == update_dots(g_dots)
     IN g_dots' = r.dots /\ step_log' = r.log
  /\ nframes' = nframes + 1
  /\ pc' = "render"
  /\ UNCHANGED <<g_drag_state, g_running, mouse, queue, nevents>>

BallLoopTest == LoopTest

BallPollEmpty == PollEmpty

BallRender == Render

NextBall ==
  \/ BallPumpEvents
  \/ BallLoopTest
  \/ BallPollEvent
  \/ BallPollEmpty
  \/ BallUpdateDots
  \/ BallRender

SpecBall == InitBall /\ [][NextBall]_vars

\* ------------------------------------------------------------ properties
Target == <<g_drag_state.row, g_drag_state.col>>

Dragging == g_drag_state.is_dragging

\* the loop takes an event off the queue in this step
Handles(e) ==
  /\ pc = "poll"
  /\ queue # << >>
  /\ Head(queue) = e
  /\ Len(queue') < Len(queue)

Neighbours(d) == {n \in Cells : {d, n} \in Edges}

\* C1: the two permanent anchors (0,0) and (0, GRID_COLS - 1) are pinned in
\* every reachable state, also after a pointer-down on an anchor followed by
\* a pointer-up.
C1_AnchorsNeverUnpinned == \A a \in Anchors : g_dots[a].fixed

\* C2: in every reachable state the two anchors are at the lattice
\* coordinates they were given at grid construction.
C2_AnchorPositionsNeverChange ==
  \A a \in Anchors :
     /\ ~g_dots[a].pos_nan
     /\ g_dots[a].x = initialize_grid[a].x
     /\ g_dots[a].y = initialize_grid[a].y

\* C3: one physics step leaves every field of every dot that is pinned at
\* the start of the step unchanged, whatever its neighbours' positions.
C3_PinExclusivity ==
  [][pc = "update" =>
       \A d \in Cells : g_dots[d].fixed => g_dots'[d] = g_dots[d]]_vars

\* a step has just run in which a dragged dot, away from its rest position,
\* stayed put while a free neighbour at another distance than the rest
\* length was set in motion
C3_Witness ==
  /\ pc = "render"
  /\ Dragging
  /\ Target \notin Anchors
  /\ g_dots[Target].fixed
  /\ g_dots[Target].x # g_dots[Target].original_x
  /\ g_dots[Target].vx = 0 /\ g_dots[Target].vy = 0
  /\ \E n \in Neighbours(Target) :
        /\ ~g_dots[n].fixed
        /\ Distance(g_dots[Target], g_dots[n]) # SPRING_REST_LENGTH * SCALE
        /\ (g_dots[n].vx # 0 \/ g_dots[n].vy # 0)

\* C4: in the spring pass of a physics step every spring of the lattice is
\* applied exactly once.
C4_EachSpringOncePerStep ==
  nframes > 0 => \A e \in Edges : step_log.calls[e] = 1

AtRest(dots) ==
  \A d \in Cells :
     /\ ~dots[d].pos_nan /\ ~dots[d].vel_nan
     /\ dots[d].x = dots[d].original_x /\ dots[d].y = dots[d].original_y
     /\ dots[d].vx = 0 /\ dots[d].vy = 0

\* C5: a physics step on a grid at exact rest (every position its rest
\* position, every velocity zero) leaves the grid at exact rest; so the
\* constructed grid stays at rest over any number of steps with no pointer
\* interaction.
C5_RestIsFixedPoint ==
  [][(pc = "update" /\ AtRest(g_dots)) => AtRest(g_dots')]_vars

\* several steps have run with no input event at all and the grid is at rest
C5_Witness ==
  /\ nevents = 0
  /\ nframes >= 2
  /\ AtRest(g_dots)

\* C6: a spring application on two coincident dots changes no velocity and
\* no velocity is ever NaN (checked for ball_sheet.c under SpecBall).
C6_DivisionGuard ==
  /\ ~step_log.coincident_changed
  /\ \A d \in Cells : ~g_dots[d].vel_nan

\* squared distance of the pointer to a dot, in 1/SCALE^2
PointerDist2(d) ==
  (mouse[1] * SCALE - g_dots[d].x) * (mouse[1] * SCALE - g_dots[d].x)
  + (mouse[2] * SCALE - g_dots[d].y) * (mouse[2] * SCALE - g_dots[d].y)

\* C7: a pointer-down selects the dot closest to the pointer when some dot
\* is within the click radius, and changes neither the drag state nor any
\* pinned flag when none is.
C7_PointerDownSelectsNearest ==
  [][Handles("MOUSEBUTTONDOWN") =>
       IF \E d \in Cells : WithinRadius(g_dots[d], mouse, CLICK_DETECTION_RADIUS)
       THEN /\ g_drag_state'.is_dragging
            /\ <<g_drag_state'.row, g_drag_state'.col>> \in Cells
            /\ \A d \in Cells :
                  PointerDist2(<<g_drag_state'.row, g_drag_state'.col>>)
                    <= PointerDist2(d)
       ELSE /\ g_drag_state' = g_drag_state
            /\ \A d \in Cells : g_dots'[d].fixed = g_dots[d].fixed]_vars

\* C8: a pointer-move while dragging sets the target's position to the
\* pointer and changes nothing else; a pointer-move or pointer-up while idle
\* changes no dot and leaves the drag state idle.
C8_PointerMoveIsPositionConstraint ==
  [][/\ (Handles("MOUSEMOTION") /\ Dragging) =>
          /\ g_dots'[Target].x = mouse[1] * SCALE
          /\ g_dots'[Target].y = mouse[2] * SCALE
          /\ ~g_dots'[Target].pos_nan
          /\ g_dots'[Target].vx = g_dots[Target].vx
          /\ g_dots'[Target].vy = g_dots[Target].vy
          /\ g_dots'[Target].vel_nan = g_dots[Target].vel_nan
          /\ g_dots'[Target].original_x = g_dots[Target].original_x
          /\ g_dots'[Target].original_y = g_dots[Target].original_y
          /\ g_dots'[Target].fixed = g_dots[Target].fixed
          /\ \A d \in Cells \ {Target} : g_dots'[d] = g_dots[d]
          /\ g_drag_state' = g_drag_state
     /\ ((Handles("MOUSEMOTION") \/ Handles("MOUSEBUTTONUP")) /\ ~Dragging) =>
          /\ \A d \in Cells : g_dots'[d] = g_dots[d]
          /\ ~g_drag_state'.is_dragging]_vars

\* a pointer-move was handled during a drag: the target sits on the pointer,
\* away from its rest position, still pinned
C8_Witness ==
  /\ Dragging
  /\ g_dots[Target].fixed
  /\ g_dots[Target].x = mouse[1] * SCALE
  /\ g_dots[Target].y = mouse[2] * SCALE
  /\ ~WithinRadius([g_dots[Target] EXCEPT !.x = g_dots[Target].original_x,
                                          !.y = g_dots[Target].original_y],
                   mouse, CLICK_DETECTION_RADIUS)

\* C9: a frame drains the event queue in order, then runs exactly one
\* physics step, then renders; events are handled only while polling, the
\* grid changes only while polling or in the step; a drained window-close
\* clears the running flag for good and the loop then ends without a
\* further frame.
C9_FrameOrdering ==
  [][/\ (pc \in {"update", "render"} => queue = << >>)
     /\ (Len(queue') < Len(queue) =>
           pc = "poll" /\ pc' = "poll" /\ queue' = Tail(queue))
     /\ ((\E d \in Cells : g_dots'[d] # g_dots[d]) => pc \in {"poll", "update"})
     /\ (g_drag_state' # g_drag_state => pc = "poll")
     /\ (nframes' # nframes =>
           pc = "update" /\ pc' = "render" /\ nframes' = nframes + 1)
     /\ (pc = "poll" => pc' \in {"poll", "update"})
     /\ (pc = "update" => pc' = "render" /\ nframes' = nframes + 1)
     /\ (pc = "render" => pc' = "loop")
     /\ (pc = "loop" => pc' = IF g_running THEN "poll" ELSE "done")
     /\ pc # "done"
     /\ (Handles("QUIT") => ~g_running')
     /\ (~g_running => ~g_running')]_vars

\* the loop has ended after a window-close that was drained in a frame in
\* which a pointer event was handled too, and that frame was completed
C9_Witness ==
  /\ pc = "done"
  /\ ~g_running
  /\ nframes >= 1
  /\ nevents >= 2
  /\ queue = << >>

\* C10: the pinned dots are exactly the two anchors when idle, and exactly
\* the two anchors and the recorded drag target, which lies in the grid,
\* when dragging.
C10_PinsFollowDragState ==
  LET pinned == {d \in Cells : g_dots[d].fixed}
  IN IF Dragging
     THEN Target \in Cells /\ pinned = Anchors \cup {Target}
     ELSE pinned = Anchors

====
